---- MODULE Spec2Model ----
(***************************************************************************)
(* Model of the ROCm source component of bt_plugin_rocm_simple.py: the      *)
(* record loader (_load_events and the four _load_*_events), the channel    *)
(* classifier (_get_channel_id, _get_or_create_stream), the event class     *)
(* resolution (_get_event_class_name_by_category) and the message iterator  *)
(* RocmSourceIterator.__next__.                                             *)
(*                                                                          *)
(* Encoding of Python values: an Optional value is a tuple, None is <<>>    *)
(* and a present value v is <<v>>.  Strings are TLA+ strings; the falsy     *)
(* empty string is "".                                                      *)
(***************************************************************************)
EXTENDS Integers, Sequences, FiniteSets, TLC

VARIABLES
    db,               \* the source: the rows its four queries return,
                      \* `failed`, the queries that raise sqlite3.Error,
                      \* `null_times`, the families with a NULL time, and
                      \* `tables`, its tables as sqlite_master lists them
    _current_events,  \* RocmSourceIterator._current_events
    _state,           \* RocmSourceIterator._state
    _event_index,     \* RocmSourceIterator._event_index
    _current_stream,  \* RocmSourceIterator._current_stream
    _streams,         \* RocmSourceIterator._streams : channel id -> stream
    _channels,        \* RocmSourceIterator._channels : channel id -> info
    _event_classes,   \* RocmSourceIterator._event_classes : name -> class
    _conn,            \* RocmSourceIterator._conn: absent, open or closed
    _uuid,            \* RocmSourceIterator._uuid
    life,             \* the iterator: unborn, live, failed (its __init__
                      \* raised) or dead (finalized)
    component,        \* the RocmSource component
    fs,               \* the files of the file system: path -> kind
    answer,           \* what the last query of the component class returned
    closes,           \* history: number of calls of _conn.close()
    out,              \* history: the messages the consumer has received
    ret,              \* history: what the last pull returned
    stops,            \* history: number of pulls that raised StopIteration
    loads             \* history: number of runs of _load_events

\* what a pull of the iterator leaves alone
lifecycle == <<_conn, _uuid, life, component, fs, answer, closes>>

vars == <<db, _current_events, _state, _event_index, _current_stream,
          _streams, _channels, _event_classes, out, ret, stops, loads,
          lifecycle>>

----------------------------------------------------------------------------
(* Bounds of the model *)

MaxRows == 2
MaxTime == 2
MaxStops == 2
MaxId == 1
MaxLoads == 2
\* The number of nested frames of __next__ the interpreter allows within
\* one pull, scaled down from sys.getrecursionlimit() (1000 by default)
RecursionLimit == 4

----------------------------------------------------------------------------
(* Python values *)

None == <<>>

Some(v) == <<v>>

\* Python's `x or 0` on an Optional[int]
OrZero(x) == IF x = None \/ x = Some(0) THEN 0 ELSE x[1]

\* Python's str.format of an integer inside an f-string
Str(n) == ToString(n)

\* Python's `a or b` on strings (the empty string is falsy)
StrOr(a, b) == IF a = "" THEN b ELSE a


\* the dataclass RocmEventData: duration and channel_id keep their default
RocmEventData(name, timestamp, category, pid, tid, agent_id, queue_id, stream_id, event_args) ==
    [name |-> name, timestamp |-> timestamp, duration |-> None,
     category |-> category, pid |-> pid, tid |-> tid, agent_id |-> agent_id,
     queue_id |-> queue_id, stream_id |-> stream_id, channel_id |-> None,
     event_args |-> event_args]

----------------------------------------------------------------------------
(* The data source: the rows each family's query returns, in query order *)

Times == 1..MaxTime

RegionRows ==
    [start : Times, end : Times, nid : {Some(1)}, pid : {Some(1)},
     tid : {Some(1)}, region_name : {"main_region"},
     category : {"HIP_RUNTIME_API_EXT"},
     process_name : {"unknown"}, thread_name : {"unknown"},
     extdata : {None}, correlation_id : {None}, call_stack : {None},
     line_info : {None}]

KernelRows ==
    [start : Times, end : Times, nid : {Some(1)}, pid : {Some(1)},
     tid : {None}, agent_id : {Some(2)}, dispatch_id : {Some(1)},
     queue_id : {Some(1)}, stream_id : {Some(1)},
     workgroup_size_x : {256}, workgroup_size_y : {1}, workgroup_size_z : {1},
     grid_size_x : {1024}, grid_size_y : {1}, grid_size_z : {1},
     kernel_name : {"vector_add"}, display_name : {"vector_add_kernel"}]

MemoryCopyRows ==
    [start : Times, end : Times, nid : {Some(1)}, pid : {Some(1)},
     tid : {None}, size : {Some(1048576)}, dst_agent_id : {Some(2)},
     src_agent_id : {Some(1)}, queue_id : {None}, stream_id : {Some(1)},
     name : {"HostToDevice"}]

MemoryAllocationRows ==
    [start : Times, end : Times, nid : {Some(1)}, pid : {None},
     tid : {None}, size : {Some(1024)}, agent_id : {Some(2)},
     name : {"hipMalloc"}]

\* ORDER BY start of each query
OrderedByStart(rows) ==
    \A i \in 1..(Len(rows) - 1) : rows[i].start <= rows[i + 1].start

\* A table of the store, named <prefix>_<family>_<version>; family and
\* version are lists of the parts that underscores separate, and are empty
\* when the name has no such part.
Table(prefix, family, version) ==
    [prefix |-> prefix, family |-> family, version |-> version]

\* the parts of the name of a table
Name(table) == <<table.prefix>> \o table.family \o table.version

Version == <<"4f2c", "9a1b">>

\* the tables of a store written with versioned names
VersionedTables ==
    <<Table("rocpd", <<"string">>, Version),
      Table("rocpd", <<"region">>, Version),
      Table("rocpd", <<"kernel", "dispatch">>, Version)>>

\* Lists of tables, in the order in which sqlite_master returns them
TableLists ==
    {<<>>,
     <<Table("users", <<>>, <<>>)>>,
     VersionedTables,
     <<Table("rocpd", <<"region">>, <<>>)>>,
     <<Table("rocpd", <<"region">>, <<>>),
       Table("rocpd", <<"string">>, Version)>>,
     <<Table("rocpd", <<"kernel", "dispatch">>, Version),
       Table("rocpd", <<"string">>, Version)>>}

QueryResults(Rows, n) == {rows \in [1..n -> Rows] : OrderedByStart(rows)}

RowCounts ==
    {c \in [{"region", "kernel", "copy", "alloc"} -> 0..MaxRows] :
        c["region"] + c["kernel"] + c["copy"] + c["alloc"] <= MaxRows}

Databases ==
    UNION {[region : QueryResults(RegionRows, c["region"]),
            kernel : QueryResults(KernelRows, c["kernel"]),
            copy   : QueryResults(MemoryCopyRows, c["copy"]),
            alloc  : QueryResults(MemoryAllocationRows, c["alloc"]),
            failed : {{}}, null_times : {{}},
            tables : {VersionedTables}] :
           c \in RowCounts}

\* Sources of one or two rows whose context columns vary: ids that are
\* NULL, 0 or positive, and region categories in several spellings, the
\* fallback 'unknown' of the COALESCE and the empty string.
OptIds == {None} \cup {Some(i) : i \in 0..MaxId}

Categories ==
    {"HIP_RUNTIME_API_EXT", "Hip_Compiler_Api_Ext", "Kernel_Dispatch",
     "memory_copy", "Memory_Allocation", "HIP_RUNTIME_API", "unknown", ""}

RegionNames == {"main_region", "hipMalloc"}

RegionRow(category, region_name, tid) ==
    [start |-> 1, end |-> 1, nid |-> Some(1), pid |-> Some(1), tid |-> tid,
     region_name |-> region_name, category |-> category,
     process_name |-> "unknown", thread_name |-> "unknown",
     extdata |-> None, correlation_id |-> None, call_stack |-> None,
     line_info |-> None]

KernelRow(pid, tid, dispatch_id, queue_id, stream_id) ==
    [start |-> 1, end |-> 1, nid |-> Some(1), pid |-> pid, tid |-> tid,
     agent_id |-> Some(2), dispatch_id |-> dispatch_id,
     queue_id |-> queue_id, stream_id |-> stream_id,
     workgroup_size_x |-> 256, workgroup_size_y |-> 1,
     workgroup_size_z |-> 1, grid_size_x |-> 1024, grid_size_y |-> 1,
     grid_size_z |-> 1, kernel_name |-> "vector_add",
     display_name |-> "vector_add_kernel"]

WideRegionRows ==
    {RegionRow(c, n, Some(1)) : c \in Categories, n \in RegionNames}
        \cup {RegionRow(c, "main_region", t) :
                 c \in {"HIP_RUNTIME_API_EXT", "unknown", ""}, t \in OptIds}

WideKernelRows ==
    {KernelRow(Some(1), t[1], Some(1), t[2], t[3]) :
        t \in OptIds \X OptIds \X OptIds}
        \cup {KernelRow(p, None, None, None, None) : p \in OptIds}

WideRowCounts ==
    {c \in [{"region", "kernel", "copy", "alloc"} -> 0..2] :
        c["region"] + c["kernel"] + c["copy"] + c["alloc"] \in 1..2}

WideDatabases ==
    UNION {[region : QueryResults(WideRegionRows, c["region"]),
            kernel : QueryResults(WideKernelRows, c["kernel"]),
            copy   : QueryResults({r \in MemoryCopyRows :
                                     r.start = 1 /\ r.end = 1}, c["copy"]),
            alloc  : QueryResults({r \in MemoryAllocationRows :
                                     r.start = 1 /\ r.end = 1}, c["alloc"]),
            failed : {{}}, null_times : {{}},
            tables : {VersionedTables}] :
           c \in WideRowCounts}

\* Sources on which the queries of some families raise sqlite3.Error (a
\* table of the query is missing, say), whatever rows the family holds
FailureSets ==
    {{"copy"}, {"region", "alloc"}, {"region", "kernel", "copy", "alloc"}}

FailingDatabases ==
    {[d EXCEPT !.failed = f] : d \in Databases, f \in FailureSets}

----------------------------------------------------------------------------
(* Record loader *)

\* Python's `x or d` on an Optional[str]
OrStr(x, d) == IF x = None \/ x = Some("") THEN d ELSE x[1]

RegionCommonArgs(row) ==
    [region_name |-> Some(row.region_name), category |-> Some(row.category),
     process_name |-> Some(row.process_name),
     thread_name |-> Some(row.thread_name),
     pid |-> row.pid, tid |-> row.tid, nid |-> row.nid,
     correlation_id |-> Some(OrZero(row.correlation_id)),
     extdata |-> Some(OrStr(row.extdata, "{}")),
     call_stack |-> Some(OrStr(row.call_stack, "{}")),
     line_info |-> Some(OrStr(row.line_info, "{}"))]

\* dict.update: the keys of `more` are added to, or replace, those of `args`
Update(args, more) ==
    [k \in DOMAIN args \cup DOMAIN more |->
        IF k \in DOMAIN more THEN more[k] ELSE args[k]]

RegionStartEvent(row) ==
    RocmEventData(row.region_name \o "_start", row.start, row.category,
        row.pid, row.tid, None, None, None,
        Update(RegionCommonArgs(row),
               [event_type |-> Some("region_start"), duration |-> Some(0)]))

RegionEndEvent(row) ==
    RocmEventData(row.region_name \o "_end", row.end, row.category,
        row.pid, row.tid, None, None, None,
        Update(RegionCommonArgs(row),
               [event_type |-> Some("region_end"),
                duration |-> Some(row.end - row.start)]))

KernelName(row) ==
    StrOr(StrOr(row.kernel_name, row.display_name), "unknown_kernel")

KernelStartEvent(row) ==
    RocmEventData("kernel_dispatch_start", row.start, "KERNEL_DISPATCH",
        row.pid, row.tid, row.agent_id, row.queue_id, row.stream_id,
        [kernel_name |-> Some(KernelName(row)),
         dispatch_id |-> row.dispatch_id,
         queue_id |-> Some(OrZero(row.queue_id)),
         stream_id |-> Some(OrZero(row.stream_id)),
         workgroup_size |-> Some(Str(row.workgroup_size_x) \o "x" \o
             Str(row.workgroup_size_y) \o "x" \o Str(row.workgroup_size_z)),
         grid_size |-> Some(Str(row.grid_size_x) \o "x" \o
             Str(row.grid_size_y) \o "x" \o Str(row.grid_size_z)),
         event_type |-> Some("kernel_dispatch_start"),
         duration |-> Some(0)])

\* an end event that does not carry the queue id of its row
KernelEndEvent_NoQueue(row) ==
    RocmEventData("kernel_dispatch_end", row.end, "KERNEL_DISPATCH",
        row.pid, row.tid, row.agent_id, None, row.stream_id,
        [kernel_name |-> Some(KernelName(row)),
         dispatch_id |-> row.dispatch_id,
         event_type |-> Some("kernel_dispatch_end"),
         duration |-> Some(row.end - row.start)])

KernelEndEvent(row) ==
    RocmEventData("kernel_dispatch_end", row.end, "KERNEL_DISPATCH",
        row.pid, row.tid, row.agent_id, row.queue_id, row.stream_id,
        [kernel_name |-> Some(KernelName(row)),
         dispatch_id |-> row.dispatch_id,
         event_type |-> Some("kernel_dispatch_end"),
         duration |-> Some(row.end - row.start)])

MemoryCopyStartEvent(row) ==
    RocmEventData("memory_copy_start", row.start, "MEMORY_COPY",
        row.pid, row.tid, None, row.queue_id, row.stream_id,
        [copy_name |-> Some(row.name),
         size |-> Some(OrZero(row.size)),
         dst_agent_id |-> Some(OrZero(row.dst_agent_id)),
         src_agent_id |-> Some(OrZero(row.src_agent_id)),
         queue_id |-> Some(OrZero(row.queue_id)),
         stream_id |-> Some(OrZero(row.stream_id)),
         event_type |-> Some("memory_copy_start"),
         duration |-> Some(0)])

MemoryCopyEndEvent(row) ==
    RocmEventData("memory_copy_end", row.end, "MEMORY_COPY",
        row.pid, row.tid, None, row.queue_id, row.stream_id,
        [copy_name |-> Some(row.name),
         size |-> Some(OrZero(row.size)),
         event_type |-> Some("memory_copy_end"),
         duration |-> Some(row.end - row.start)])

MemoryAllocationStartEvent(row) ==
    RocmEventData("memory_allocation_start", row.start, "MEMORY_ALLOCATION",
        row.pid, row.tid, row.agent_id, None, None,
        [allocation_name |-> Some(row.name),
         size |-> Some(OrZero(row.size)),
         agent_id |-> Some(OrZero(row.agent_id)),
         event_type |-> Some("memory_allocation_start"),
         duration |-> Some(0)])

\* an end event whose duration is start - end
MemoryAllocationEndEvent_StartMinusEnd(row) ==
    RocmEventData("memory_allocation_end", row.end, "MEMORY_ALLOCATION",
        row.pid, row.tid, row.agent_id, None, None,
        [allocation_name |-> Some(row.name),
         size |-> Some(OrZero(row.size)),
         event_type |-> Some("memory_allocation_end"),
         duration |-> Some(row.start - row.end)])

MemoryAllocationEndEvent(row) ==
    RocmEventData("memory_allocation_end", row.end, "MEMORY_ALLOCATION",
        row.pid, row.tid, row.agent_id, None, None,
        [allocation_name |-> Some(row.name),
         size |-> Some(OrZero(row.size)),
         event_type |-> Some("memory_allocation_end"),
         duration |-> Some(row.end - row.start)])

\* The loop `for row in cursor.fetchall()` of each loader appends the start
\* event and then the end event of every row, in row order.
LoadRegionEvents(rows) ==
    [i \in 1..(2 * Len(rows)) |->
        IF i % 2 = 1 THEN RegionStartEvent(rows[(i + 1) \div 2])
                     ELSE RegionEndEvent(rows[i \div 2])]

\* a loader that appends one merged event for a row
LoadKernelDispatchEvents_Merged(rows) ==
    [i \in 1..Len(rows) |-> KernelEndEvent(rows[i])]

LoadKernelDispatchEvents(rows) ==
    [i \in 1..(2 * Len(rows)) |->
        IF i % 2 = 1 THEN KernelStartEvent(rows[(i + 1) \div 2])
                     ELSE KernelEndEvent(rows[i \div 2])]

LoadMemoryCopyEvents(rows) ==
    [i \in 1..(2 * Len(rows)) |->
        IF i % 2 = 1 THEN MemoryCopyStartEvent(rows[(i + 1) \div 2])
                     ELSE MemoryCopyEndEvent(rows[i \div 2])]

LoadMemoryAllocationEvents(rows) ==
    [i \in 1..(2 * Len(rows)) |->
        IF i % 2 = 1 THEN MemoryAllocationStartEvent(rows[(i + 1) \div 2])
                     ELSE MemoryAllocationEndEvent(rows[i \div 2])]

\* list.sort(key=lambda x: x.timestamp): a stable sort.  Insert puts an
\* event behind every event whose timestamp is not greater than its own.
\* an insertion that puts an event before the events of its own timestamp
RECURSIVE Insert_BeforeEquals(_, _)
Insert_BeforeEquals(sorted, e) ==
    IF sorted = <<>> THEN <<e>>
    ELSE IF sorted[Len(sorted)].timestamp < e.timestamp
         THEN Append(sorted, e)
         ELSE Append(Insert_BeforeEquals(SubSeq(sorted, 1, Len(sorted) - 1), e),
                     sorted[Len(sorted)])

\* an insertion that keeps the list in descending order of timestamp
RECURSIVE Insert_Descending(_, _)
Insert_Descending(sorted, e) ==
    IF sorted = <<>> THEN <<e>>
    ELSE IF sorted[Len(sorted)].timestamp >= e.timestamp
         THEN Append(sorted, e)
         ELSE Append(Insert_Descending(SubSeq(sorted, 1, Len(sorted) - 1), e),
                     sorted[Len(sorted)])

RECURSIVE Insert(_, _)
Insert(sorted, e) ==
    IF sorted = <<>> THEN <<e>>
    ELSE IF sorted[Len(sorted)].timestamp <= e.timestamp
         THEN Append(sorted, e)
         ELSE Append(Insert(SubSeq(sorted, 1, Len(sorted) - 1), e),
                     sorted[Len(sorted)])

\* a load that leaves the list in load order
SortByTimestamp_LoadOrder(events) == events

RECURSIVE SortByTimestamp(_)
SortByTimestamp(events) ==
    IF events = <<>> THEN <<>>
    ELSE Insert(SortByTimestamp(SubSeq(events, 1, Len(events) - 1)),
                events[Len(events)])

\* a loader that has appended the first event before the failure shows
Try_KeepsFirst(d, family, events) ==
    IF family \in d.failed
    THEN SubSeq(events, 1, IF events = <<>> THEN 0 ELSE 1)
    ELSE events

\* try: cursor.execute(query); for row in cursor.fetchall(): ...
\* except sqlite3.Error: print(...).  `events` is what the loop appends for
\* the rows of the family; execute raises before the loop when the query
\* fails, and nothing in the loop can raise sqlite3.Error.
Try(d, family, events) == IF family \in d.failed THEN <<>> ELSE events

\* a load that appends to the list it finds
LoadEventsInto_KeepsList(current, d) ==
    SortByTimestamp(current
        \o Try(d, "region", LoadRegionEvents(d.region))
        \o Try(d, "kernel", LoadKernelDispatchEvents(d.kernel))
        \o Try(d, "copy", LoadMemoryCopyEvents(d.copy))
        \o Try(d, "alloc", LoadMemoryAllocationEvents(d.alloc)))

\* _load_events on an iterator whose list is `current`: the list is set to
\* [], the four loaders append to it, and it is sorted
LoadEventsInto(current, d) ==
    LET emptied == <<>>
    IN  SortByTimestamp(emptied
            \o Try(d, "region", LoadRegionEvents(d.region))
            \o Try(d, "kernel", LoadKernelDispatchEvents(d.kernel))
            \o Try(d, "copy", LoadMemoryCopyEvents(d.copy))
            \o Try(d, "alloc", LoadMemoryAllocationEvents(d.alloc)))

\* _load_events as __init__ runs it, on the list [] of a new iterator
LoadEvents(d) == LoadEventsInto(<<>>, d)

----------------------------------------------------------------------------
(* Channel classifier *)

\* a classifier that tests the ids for truth: the id 0 counts as absent
GetChannelId_ZeroIsAbsent(event_data) ==
    LET category == StrOr(event_data.category, "unknown")
        present(x) == x # None /\ x # Some(0)
    IN  IF present(event_data.tid)
        THEN category \o "_thread_" \o Str(event_data.tid[1])
        ELSE IF present(event_data.queue_id)
        THEN category \o "_queue_" \o Str(event_data.queue_id[1])
        ELSE IF present(event_data.stream_id)
        THEN category \o "_stream_" \o Str(event_data.stream_id[1])
        ELSE category \o "_default_" \o Str(OrZero(event_data.pid))

\* a classifier whose channel id leaves the category out
GetChannelId_NoCategory(event_data) ==
    IF event_data.tid # None
    THEN "thread_" \o Str(event_data.tid[1])
    ELSE IF event_data.queue_id # None
    THEN "queue_" \o Str(event_data.queue_id[1])
    ELSE IF event_data.stream_id # None
    THEN "stream_" \o Str(event_data.stream_id[1])
    ELSE "default_" \o Str(OrZero(event_data.pid))

GetChannelId(event_data) ==
    LET category == StrOr(event_data.category, "unknown")
    IN  IF event_data.tid # None
        THEN category \o "_thread_" \o Str(event_data.tid[1])
        ELSE IF event_data.queue_id # None
        THEN category \o "_queue_" \o Str(event_data.queue_id[1])
        ELSE IF event_data.stream_id # None
        THEN category \o "_stream_" \o Str(event_data.stream_id[1])
        ELSE category \o "_default_" \o Str(OrZero(event_data.pid))

\* trace.create_stream(stream_class): a new stream object, told from the
\* others by the number of streams the trace created before it
CreateStream(streams) == Cardinality(DOMAIN streams)

\* self._streams[channel_id] = value, self._channels[channel_id] = value
Store(map, key, value) ==
    [k \in DOMAIN map \cup {key} |-> IF k = key THEN value ELSE map[k]]

\* a lookup that creates a stream on every call, also for a known channel id
GetOrCreateStream_AlwaysCreates(self, event_data) ==
    LET channel_id == GetChannelId(event_data)
        created ==
            [self EXCEPT
               !._streams = Store(@, channel_id,
                                  CreateStream(self._streams)),
               !._channels = Store(@, channel_id,
                   [category |-> event_data.category,
                    channel_id |-> channel_id,
                    tid |-> event_data.tid,
                    queue_id |-> event_data.queue_id,
                    stream_id |-> event_data.stream_id])]
    IN  [self |-> created, stream |-> created._streams[channel_id]]

\* Returns the stream of the event's channel and the iterator, with the
\* stream and the channel info added when the channel id is new.
GetOrCreateStream(self, event_data) ==
    LET channel_id == GetChannelId(event_data)
        created ==
            IF channel_id \notin DOMAIN self._streams
            THEN [self EXCEPT
                    !._streams = Store(@, channel_id,
                                       CreateStream(self._streams)),
                    !._channels = Store(@, channel_id,
                        [category |-> event_data.category,
                         channel_id |-> channel_id,
                         tid |-> event_data.tid,
                         queue_id |-> event_data.queue_id,
                         stream_id |-> event_data.stream_id])]
            ELSE self
    IN  [self |-> created, stream |-> created._streams[channel_id]]

----------------------------------------------------------------------------
(* Event classes and event class resolution *)

\* RocmSource._create_event_classes: class name -> payload field names
EventClasses ==
    [region_event |->
        {"region_name", "event_type", "category", "process_name",
         "thread_name", "pid", "tid", "nid", "correlation_id", "duration",
         "extdata", "call_stack", "line_info"},
     kernel_dispatch_event |->
        {"kernel_name", "event_type", "dispatch_id", "queue_id", "stream_id",
         "workgroup_size", "grid_size", "duration"},
     memory_copy_event |->
        {"copy_name", "event_type", "size", "dst_agent_id", "src_agent_id",
         "queue_id", "stream_id", "duration"},
     memory_allocation_event |->
        {"allocation_name", "event_type", "size", "agent_id", "duration"},
     generic_event |-> {"event_type"}]

\* dict.get(name): the class, or None
EventClassGet(classes, name) ==
    IF name \in DOMAIN classes THEN Some(name) ELSE None

\* str.lower() on the categories of the model
Lower(s) ==
    CASE s = "HIP_RUNTIME_API_EXT" -> "hip_runtime_api_ext"
      [] s = "HIP_COMPILER_API_EXT" -> "hip_compiler_api_ext"
      [] s = "KERNEL_DISPATCH" -> "kernel_dispatch"
      [] s = "MEMORY_COPY" -> "memory_copy"
      [] s = "MEMORY_ALLOCATION" -> "memory_allocation"
      [] s = "Hip_Compiler_Api_Ext" -> "hip_compiler_api_ext"
      [] s = "Kernel_Dispatch" -> "kernel_dispatch"
      [] s = "Memory_Allocation" -> "memory_allocation"
      [] s = "HIP_RUNTIME_API" -> "hip_runtime_api"
      [] OTHER -> s

\* `"region" in name` on the event names of the model
ContainsRegion(name) == name \in {"main_region_start", "main_region_end"}

\* a resolution that compares the category as it is spelled
GetEventClassNameByCategory_CaseSensitive(event_data) ==
    IF event_data.category # ""
    THEN LET category == event_data.category
         IN  IF category = "hip_runtime_api_ext" THEN "region_event"
             ELSE IF category = "hip_compiler_api_ext" THEN "region_event"
             ELSE IF category = "kernel_dispatch" THEN "kernel_dispatch_event"
             ELSE IF category = "memory_copy" THEN "memory_copy_event"
             ELSE IF category = "memory_allocation"
                  THEN "memory_allocation_event"
             ELSE IF ContainsRegion(event_data.name) THEN "region_event"
             ELSE "generic_event"
    ELSE "generic_event"

GetEventClassNameByCategory(event_data) ==
    IF event_data.category # ""
    THEN LET category == Lower(event_data.category)
         IN  IF category = "hip_runtime_api_ext" THEN "region_event"
             ELSE IF category = "hip_compiler_api_ext" THEN "region_event"
             ELSE IF category = "kernel_dispatch" THEN "kernel_dispatch_event"
             ELSE IF category = "memory_copy" THEN "memory_copy_event"
             ELSE IF category = "memory_allocation"
                  THEN "memory_allocation_event"
             ELSE IF ContainsRegion(event_data.name) THEN "region_event"
             ELSE "generic_event"
    ELSE "generic_event"

----------------------------------------------------------------------------
(* Messages *)

StopIteration == [type |-> "StopIteration"]

\* What a pull raises when the calls of __next__ nested in it exceed the
\* recursion limit of the interpreter
RecursionError == [type |-> "RecursionError"]

StreamBeginningMessage(stream) ==
    [type |-> "stream_beginning", stream |-> stream]

StreamEndMessage(stream) == [type |-> "stream_end", stream |-> stream]

\* The payload of a new event message holds every field of the class at its
\* type default (None here); the loop over event_args sets the fields that
\* are keys of the payload and whose value is not None.
\* a payload that takes every key of event_args that has a value
Payload_EveryKey(fields, event_args) ==
    [key \in fields \cup {k \in DOMAIN event_args : event_args[k] # None} |->
        IF key \in DOMAIN event_args /\ event_args[key] # None
        THEN event_args[key] ELSE None]

Payload(fields, event_args) ==
    [key \in fields |->
        IF key \in DOMAIN event_args /\ event_args[key] # None
        THEN event_args[key] ELSE None]

\* index: the position of the event in _current_events (0-based), kept as a
\* history annotation of the message
EventMessage(event_class, stream, event_data, index) ==
    [type |-> "event", stream |-> stream, event_class |-> event_class,
     default_clock_snapshot |-> event_data.timestamp,
     payload |-> Payload(EventClasses[event_class], event_data.event_args),
     index |-> index]

----------------------------------------------------------------------------
(* RocmSourceIterator.__next__                                              *)
(* `self` is the record of the iterator's fields; every operator returns    *)
(* the iterator after the call and what the call returns or raises.         *)

RECURSIVE next(_, _)

\* Faulty variant of NextStreamBeginning: a stream is begun for an empty
\* list too, on a default channel.
NextStreamBeginning_BeginsOnEmpty(self, depth) ==
    IF self._current_events # <<>>
    THEN LET first_event == self._current_events[1]
             got == GetOrCreateStream(self, first_event)
         IN  [self |-> [got.self EXCEPT
                          !._current_stream = Some(got.stream),
                          !._state = "events"],
              ret |-> StreamBeginningMessage(got.stream)]
    ELSE LET stream == CreateStream(self._streams)
         IN  [self |-> [self EXCEPT
                          !._streams = Store(@, "unknown_default_0", stream),
                          !._current_stream = Some(stream),
                          !._state = "events"],
              ret |-> StreamBeginningMessage(stream)]

\* Faulty variant of NextStreamBeginning: on an empty list StopIteration is
\* raised without the move to "done".
NextStreamBeginning_NoDoneOnEmpty(self, depth) ==
    IF self._current_events # <<>>
    THEN LET first_event == self._current_events[1]
             got == GetOrCreateStream(self, first_event)
         IN  [self |-> [got.self EXCEPT
                          !._current_stream = Some(got.stream),
                          !._state = "events"],
              ret |-> StreamBeginningMessage(got.stream)]
    ELSE [self |-> self, ret |-> StopIteration]

\* Faulty variant of NextStreamBeginning: the cursor moves past the first
\* event when its stream beginning is sent.
NextStreamBeginning_Advances(self, depth) ==
    IF self._current_events # <<>>
    THEN LET first_event == self._current_events[1]
             got == GetOrCreateStream(self, first_event)
         IN  [self |-> [got.self EXCEPT
                          !._current_stream = Some(got.stream),
                          !._event_index = 1,
                          !._state = "events"],
              ret |-> StreamBeginningMessage(got.stream)]
    ELSE [self |-> [self EXCEPT !._state = "done"], ret |-> StopIteration]

\* if self._state == "stream_beginning"
NextStreamBeginning(self, depth) ==
    IF self._current_events # <<>>
    THEN LET first_event == self._current_events[1]
             got == GetOrCreateStream(self, first_event)
         IN  [self |-> [got.self EXCEPT
                          !._current_stream = Some(got.stream),
                          !._state = "events"],
              ret |-> StreamBeginningMessage(got.stream)]
    ELSE [self |-> [self EXCEPT !._state = "done"], ret |-> StopIteration]

\* the event message of the event just taken from the list, or the next
\* message when neither its class nor the generic class exists
NextEventMessage(self, event_data, stream, depth) ==
    LET event_class_name == GetEventClassNameByCategory(event_data)
        found == EventClassGet(self._event_classes, event_class_name)
        event_class ==
            IF found = None
            THEN EventClassGet(self._event_classes, "generic_event")
            ELSE found
    IN  IF event_class = None
        THEN next(self, depth + 1)
        ELSE [self |-> self,
              ret |-> EventMessage(event_class[1], stream, event_data,
                                   self._event_index - 1)]

\* Faulty variant of NextEvents: a stream beginning is sent only for a
\* stream that is created by this call, not for one that becomes current
\* again.
NextEvents_BeginOnlyNewStream(self, depth) ==
    IF self._event_index < Len(self._current_events)
    THEN LET event_data == self._current_events[self._event_index + 1]
             advanced == [self EXCEPT !._event_index = @ + 1]
             got == GetOrCreateStream(advanced, event_data)
         IN  IF GetChannelId(event_data) \notin DOMAIN self._streams
             THEN [self |-> [got.self EXCEPT
                               !._current_stream = Some(got.stream)],
                   ret |-> StreamBeginningMessage(got.stream)]
             ELSE NextEventMessage(
                      [got.self EXCEPT !._current_stream = Some(got.stream)],
                      event_data, got.stream, depth)
    ELSE next([self EXCEPT !._state = "stream_end"], depth + 1)

\* Faulty variant of NextEvents: the stream of the event is not compared
\* with the current stream, the event message is sent at once.
NextEvents_NoSwitch(self, depth) ==
    IF self._event_index < Len(self._current_events)
    THEN LET event_data == self._current_events[self._event_index + 1]
             advanced == [self EXCEPT !._event_index = @ + 1]
             got == GetOrCreateStream(advanced, event_data)
         IN  NextEventMessage(got.self, event_data, got.stream, depth)
    ELSE next([self EXCEPT !._state = "stream_end"], depth + 1)

\* Faulty variant of NextEvents: with the list exhausted the cursor is used
\* once more and the pull raises IndexError.
NextEvents_ReadsPastEnd(self, depth) ==
    IF self._event_index < Len(self._current_events)
    THEN LET event_data == self._current_events[self._event_index + 1]
             advanced == [self EXCEPT !._event_index = @ + 1]
             got == GetOrCreateStream(advanced, event_data)
         IN  IF Some(got.stream) # got.self._current_stream
             THEN [self |-> [got.self EXCEPT
                               !._current_stream = Some(got.stream)],
                   ret |-> StreamBeginningMessage(got.stream)]
             ELSE NextEventMessage(got.self, event_data, got.stream, depth)
    ELSE [self |-> [self EXCEPT !._state = "stream_end"],
          ret |-> [type |-> "IndexError"]]

\* Faulty variant of NextEvents: the move to "stream_end" is made with one
\* event still to read.
NextEvents_EndsEarly(self, depth) ==
    IF self._event_index < Len(self._current_events) - 1
    THEN LET event_data == self._current_events[self._event_index + 1]
             advanced == [self EXCEPT !._event_index = @ + 1]
             got == GetOrCreateStream(advanced, event_data)
         IN  IF Some(got.stream) # got.self._current_stream
             THEN [self |-> [got.self EXCEPT
                               !._current_stream = Some(got.stream)],
                   ret |-> StreamBeginningMessage(got.stream)]
             ELSE NextEventMessage(got.self, event_data, got.stream, depth)
    ELSE next([self EXCEPT !._state = "stream_end"], depth + 1)

\* elif self._state == "events"
NextEvents(self, depth) ==
    IF self._event_index < Len(self._current_events)
    THEN LET event_data == self._current_events[self._event_index + 1]
             advanced == [self EXCEPT !._event_index = @ + 1]
             got == GetOrCreateStream(advanced, event_data)
         IN  IF Some(got.stream) # got.self._current_stream
             THEN [self |-> [got.self EXCEPT
                               !._current_stream = Some(got.stream)],
                   ret |-> StreamBeginningMessage(got.stream)]
             ELSE NextEventMessage(got.self, event_data, got.stream, depth)
    ELSE next([self EXCEPT !._state = "stream_end"], depth + 1)

\* Faulty variant of NextStreamEnd: after the stream end the iterator goes
\* back to "stream_beginning" instead of "done".
NextStreamEnd_Restarts(self, depth) ==
    IF self._current_stream # None
    THEN [self |-> [self EXCEPT !._current_stream = None,
                                !._state = "stream_beginning"],
          ret |-> StreamEndMessage(self._current_stream[1])]
    ELSE [self |-> [self EXCEPT !._state = "done"], ret |-> StopIteration]

\* Faulty variant of NextStreamEnd: the stream end is sent for the stream
\* of the first event of the list, not for the current stream.
NextStreamEnd_EndsFirstStream(self, depth) ==
    IF self._current_stream # None
    THEN [self |-> [self EXCEPT !._current_stream = None,
                                !._state = "done"],
          ret |-> StreamEndMessage(
                      self._streams[GetChannelId(self._current_events[1])])]
    ELSE [self |-> [self EXCEPT !._state = "done"], ret |-> StopIteration]

\* Faulty variant of NextStreamEnd: the list is released when the stream
\* end is sent.
NextStreamEnd_ClearsList(self, depth) ==
    IF self._current_stream # None
    THEN [self |-> [self EXCEPT !._current_stream = None,
                                !._current_events = <<>>,
                                !._state = "done"],
          ret |-> StreamEndMessage(self._current_stream[1])]
    ELSE [self |-> [self EXCEPT !._state = "done"], ret |-> StopIteration]

\* elif self._state == "stream_end"
NextStreamEnd(self, depth) ==
    IF self._current_stream # None
    THEN [self |-> [self EXCEPT !._current_stream = None,
                                !._state = "done"],
          ret |-> StreamEndMessage(self._current_stream[1])]
    ELSE [self |-> [self EXCEPT !._state = "done"], ret |-> StopIteration]

\* Faulty variant of NextDone: the exhausted iterator rewinds itself when
\* it raises StopIteration.
NextDone_Rewinds(self, depth) ==
    [self |-> [self EXCEPT !._state = "stream_beginning",
                           !._event_index = 0],
     ret |-> StopIteration]

\* else
NextDone(self, depth) == [self |-> self, ret |-> StopIteration]

\* __next__ entered as frame number depth of the pull.  The interpreter
\* refuses a call that would take the stack beyond its recursion limit.
next(self, depth) ==
    IF depth > RecursionLimit
    THEN [self |-> self, ret |-> RecursionError]
    ELSE IF self._state = "stream_beginning"
    THEN NextStreamBeginning(self, depth)
    ELSE IF self._state = "events" THEN NextEvents(self, depth)
    ELSE IF self._state = "stream_end" THEN NextStreamEnd(self, depth)
    ELSE NextDone(self, depth)

----------------------------------------------------------------------------
(* The component, the metadata of the store and the queries *)

Paths == {"trace.db", "24228_results.db"}

\* what a path of the file system holds: nothing, a file that is no SQLite
\* store, a directory, or the SQLite store `db`
FileKinds == {"absent", "text", "directory", "store"}

\* os.path.exists
Exists(files, path) == path \in DOMAIN files /\ files[path] # "absent"

\* every query of the plugin: the four families and sqlite_master
AllQueries == {"region", "kernel", "copy", "alloc", "master"}

\* What the connection opened on a path reads: the store, or, for a file
\* that is no store, a source on which every query raises
\* sqlite3.DatabaseError
Content(files, path, d) ==
    IF files[path] = "store" THEN d ELSE [d EXCEPT !.failed = AllQueries]

\* name LIKE 'rocpd_%' (least == 1) and name LIKE 'rocpd_%_%' (least ==
\* 2): in LIKE the underscore stands for any one character, so the pattern
\* asks for the text rocpd followed by at least `least` characters.  A
\* name of n parts has at least 2 * (n - 1) characters after its first part.
Like(least, name) == name[1] = "rocpd" /\ 2 * (Len(name) - 1) >= least

RECURSIVE Join(_)
\* '_'.join(parts)
Join(parts) ==
    IF parts = <<>> THEN ""
    ELSE IF Len(parts) = 1 THEN parts[1]
    ELSE parts[1] \o "_" \o Join(Tail(parts))

\* table_name.split('_', 2)[-1]: at most two splits, the last piece
SplitLast(name) ==
    IF Len(name) >= 3 THEN Join(SubSeq(name, 3, Len(name)))
    ELSE name[Len(name)]

FallbackUuid == "0000b6ad_2bac_7bac_82e7_5f0563eafa7f"

\* RocmSourceIterator._get_db_metadata (the uuid; the guid is the same)
GetDbMetadata(d) ==
    IF "master" \in d.failed THEN FallbackUuid
    ELSE LET Matches(t) == Like(2, Name(t))
             tables == SelectSeq(d.tables, Matches)
         IN  IF tables # <<>> THEN SplitLast(Name(tables[1]))
             ELSE FallbackUuid

\* The loaders meet a row whose start or end is NULL in a family whose
\* query succeeds: row['end'] - row['start'] raises TypeError, which no
\* loader catches.
LoadRaises(d) == d.null_times \ d.failed # {}

\* The parameters of the component: db_path is None when the key 'db-path'
\* is missing
ParamSets ==
    [db_path : {None, Some(""), Some("trace.db"), Some("nowhere.db")}]

Unborn ==
    [status |-> "unborn", error |-> None, params |-> [db_path |-> None],
     _db_path |-> None, _trace_class |-> FALSE, ports |-> {}]

\* a constructor that creates the trace class before it looks for the file
RocmSourceInit_TraceClassFirst(files, params) ==
    LET _db_path == IF params.db_path = None
                    THEN "24228_results.db"
                    ELSE params.db_path[1]
        raise(e) ==
            [status |-> "failed", error |-> Some(e), params |-> params,
             _db_path |-> Some(_db_path), _trace_class |-> _db_path # "",
             ports |-> {}]
    IN  IF _db_path = "" THEN raise("ValueError")
        ELSE IF ~Exists(files, _db_path) THEN raise("FileNotFoundError")
        ELSE [status |-> "ready", error |-> None, params |-> params,
              _db_path |-> Some(_db_path), _trace_class |-> TRUE,
              ports |-> {"out"}]

\* RocmSource.__init__
RocmSourceInit(files, params) ==
    LET _db_path == IF params.db_path = None
                    THEN "24228_results.db"
                    ELSE params.db_path[1]
        raise(e) ==
            [status |-> "failed", error |-> Some(e), params |-> params,
             _db_path |-> Some(_db_path), _trace_class |-> FALSE,
             ports |-> {}]
    IN  IF _db_path = "" THEN raise("ValueError")
        ELSE IF ~Exists(files, _db_path) THEN raise("FileNotFoundError")
        ELSE [status |-> "ready", error |-> None, params |-> params,
              _db_path |-> Some(_db_path), _trace_class |-> TRUE,
              ports |-> {"out"}]

\* Python values handed to a query
PyNone == [type |-> "NoneType", value |-> ""]
PyInt(digits) == [type |-> "int", value |-> digits]
PyStr(text) == [type |-> "str", value |-> text]

\* not value
Falsy(value) ==
    \/ value = PyNone
    \/ value = PyInt("0")
    \/ value = PyStr("")

\* params.get('input') of the queries made: PyNone when the key is missing
QueryInputs ==
    {PyNone, PyInt("0"), PyInt("5"), PyStr(""), PyStr("trace.db"),
     PyStr("24228_results.db"), PyStr("nowhere.db")}

Queries == {"babeltrace.support-info", "babeltrace.mip-version", "other"}

Weight(text) == [weight |-> text]

\* a probe that lets the error of a file that is no store escape
UserQuery_Uncaught(files, d, query, input_value) ==
    IF query = "babeltrace.support-info"
    THEN IF Falsy(input_value) THEN Weight("0.0")
         ELSE IF input_value.type # "str" THEN Weight("0.0")
         ELSE IF ~Exists(files, input_value.value) THEN Weight("0.0")
         ELSE IF files[input_value.value] = "directory"
         THEN [raised |-> "OperationalError"]
         ELSE LET content == Content(files, input_value.value, d)
                  Matches(t) == Like(1, Name(t))
              IN  IF "master" \in content.failed
                  THEN [raised |-> "DatabaseError"]
                  ELSE IF SelectSeq(content.tables, Matches) # <<>>
                  THEN Weight("1.0")
                  ELSE Weight("0.0")
    ELSE IF query = "babeltrace.mip-version" THEN [mip_version |-> 1]
    ELSE [none |-> TRUE]

\* RocmSource._user_query.  sqlite3.connect raises on a directory, and
\* execute raises on a file that is no store or on a store whose
\* sqlite_master cannot be read; `except Exception` turns each into 0.0.
UserQuery(files, d, query, input_value) ==
    IF query = "babeltrace.support-info"
    THEN IF Falsy(input_value) THEN Weight("0.0")
         ELSE IF input_value.type # "str" THEN Weight("0.0")
         ELSE IF ~Exists(files, input_value.value) THEN Weight("0.0")
         ELSE IF files[input_value.value] = "directory"
         THEN Weight("0.0")
         ELSE LET content == Content(files, input_value.value, d)
                  Matches(t) == Like(1, Name(t))
              IN  IF "master" \in content.failed
                  THEN Weight("0.0")
                  ELSE IF SelectSeq(content.tables, Matches) # <<>>
                  THEN Weight("1.0")
                  ELSE Weight("0.0")
    ELSE IF query = "babeltrace.mip-version" THEN [mip_version |-> 1]
    ELSE [none |-> TRUE]

\* a finalizer that does not close the connection
Del_LeavesOpen(conn, count) == [_conn |-> conn, closes |-> count]

\* RocmSourceIterator.__del__: if hasattr(self, '_conn'): close it
Del(conn, count) ==
    IF conn # None
    THEN [_conn |-> Some("closed"), closes |-> count + 1]
    ELSE [_conn |-> conn, closes |-> count]

----------------------------------------------------------------------------
(* The state machine *)

Self ==
    [_current_events |-> _current_events, _state |-> _state,
     _event_index |-> _event_index, _current_stream |-> _current_stream,
     _streams |-> _streams, _channels |-> _channels,
     _event_classes |-> _event_classes]

\* The component constructed on the store at trace.db and its iterator
\* constructed: the connection is open
Running ==
    /\ fs = [path \in Paths |-> IF path = "trace.db" THEN "store"
                                 ELSE "absent"]
    /\ component = RocmSourceInit(fs, [db_path |-> Some("trace.db")])
    /\ life = IF LoadRaises(db) THEN "failed" ELSE "live"
    /\ _conn = Some("open")
    /\ _uuid = Some(GetDbMetadata(db))
    /\ answer = None
    /\ closes = 0

\* RocmSourceIterator.__init__: the state after construction on a source
Init ==
    /\ db \in Databases
    /\ _current_events = LoadEvents(db)
    /\ _state = "stream_beginning"
    /\ _event_index = 0
    /\ _current_stream = None
    /\ _streams = <<>>
    /\ _channels = <<>>
    /\ _event_classes = EventClasses
    /\ out = <<>>
    /\ ret = None
    /\ stops = 0
    /\ loads = 1
    /\ Running

\* One pull of the consumer: a call of __next__.  The consumer receives the
\* returned message, or StopIteration (end of stream).
Pull ==
    /\ life = "live"
    /\ stops < MaxStops
    /\ LET r == next(Self, 1)
       IN  /\ _current_events' = r.self._current_events
           /\ _state' = r.self._state
           /\ _event_index' = r.self._event_index
           /\ _current_stream' = r.self._current_stream
           /\ _streams' = r.self._streams
           /\ _channels' = r.self._channels
           /\ ret' = Some(r.ret)
           /\ out' = IF r.ret \in {StopIteration, RecursionError}
                     THEN out
                     ELSE Append(out, r.ret)
           /\ stops' = IF r.ret = StopIteration THEN stops + 1 ELSE stops
    /\ UNCHANGED <<db, _event_classes, loads, lifecycle>>

Next == Pull

Spec == Init /\ [][Next]_vars

\* _load_events run once more on the iterator, on the unmodified source
Reload ==
    /\ life = "live"
    /\ loads < MaxLoads
    /\ _current_events' = LoadEventsInto(_current_events, db)
    /\ loads' = loads + 1
    /\ UNCHANGED <<db, _state, _event_index, _current_stream, _streams,
                   _channels, _event_classes, out, ret, stops, lifecycle>>

LoadNext == Pull \/ Reload

\* The iterator with repeated loads between the pulls
ReloadSpec == Init /\ [][LoadNext]_vars

\* The event classes an iterator finds in the user data of its port, when
\* the port offers only the classes named
Restrict(names) == [name \in names |-> EventClasses[name]]

RestrictedClasses ==
    {Restrict({}),
     Restrict({"kernel_dispatch_event"}),
     Restrict({"region_event", "memory_copy_event"})}

\* Construction of the iterator on a port whose user data lacks the generic
\* class and some or all of the other classes
SkipInit ==
    /\ db \in Databases
    /\ _current_events = LoadEvents(db)
    /\ _state = "stream_beginning"
    /\ _event_index = 0
    /\ _current_stream = None
    /\ _streams = <<>>
    /\ _channels = <<>>
    /\ _event_classes \in RestrictedClasses
    /\ out = <<>>
    /\ ret = None
    /\ stops = 0
    /\ loads = 1
    /\ Running

SkipSpec == SkipInit /\ [][Next]_vars

\* Construction of the iterator on a source with failing queries
FailInit ==
    /\ db \in FailingDatabases
    /\ _current_events = LoadEvents(db)
    /\ _state = "stream_beginning"
    /\ _event_index = 0
    /\ _current_stream = None
    /\ _streams = <<>>
    /\ _channels = <<>>
    /\ _event_classes = EventClasses
    /\ out = <<>>
    /\ ret = None
    /\ stops = 0
    /\ loads = 1
    /\ Running

FailSpec == FailInit /\ [][Next]_vars

\* Sources of one region main_region of thread 1 and one kernel dispatch
\* on queue 1, with the times of the scenario [1000, 1005] and [1500, 3500]
\* and with other times around them
ScenarioRegion(start, end) ==
    [start |-> start, end |-> end, nid |-> Some(1), pid |-> Some(1),
     tid |-> Some(1), region_name |-> "main_region",
     category |-> "HIP_RUNTIME_API_EXT",
     process_name |-> "unknown", thread_name |-> "unknown",
     extdata |-> None, correlation_id |-> None, call_stack |-> None,
     line_info |-> None]

ScenarioKernel(start, end, tid) ==
    [start |-> start, end |-> end, nid |-> Some(1), pid |-> Some(1),
     tid |-> tid, agent_id |-> Some(2), dispatch_id |-> Some(1),
     queue_id |-> Some(1), stream_id |-> None,
     workgroup_size_x |-> 256, workgroup_size_y |-> 1,
     workgroup_size_z |-> 1,
     grid_size_x |-> 1024, grid_size_y |-> 1, grid_size_z |-> 1,
     kernel_name |-> "vector_add", display_name |-> "vector_add_kernel"]

ScenarioDatabases ==
    {[region |-> <<ScenarioRegion(1000, re)>>,
      kernel |-> <<ScenarioKernel(ks, 3500, tid)>>,
      copy |-> <<>>, alloc |-> <<>>, failed |-> {}, null_times |-> {},
      tables |-> VersionedTables] :
        re \in {1000, 1005, 1500, 3500}, ks \in {1005, 1500},
        tid \in {None, Some(1)}}

\* Construction of the iterator on a source of the scenario
ScenarioInit ==
    /\ db \in ScenarioDatabases
    /\ _current_events = LoadEvents(db)
    /\ _state = "stream_beginning"
    /\ _event_index = 0
    /\ _current_stream = None
    /\ _streams = <<>>
    /\ _channels = <<>>
    /\ _event_classes = EventClasses
    /\ out = <<>>
    /\ ret = None
    /\ stops = 0
    /\ loads = 1
    /\ Running

ScenarioSpec == ScenarioInit /\ [][Next]_vars

\* Every row of the source ends no earlier than it starts
WellFormed(d) ==
    /\ \A i \in DOMAIN d.region : d.region[i].start <= d.region[i].end
    /\ \A i \in DOMAIN d.kernel : d.kernel[i].start <= d.kernel[i].end
    /\ \A i \in DOMAIN d.copy : d.copy[i].start <= d.copy[i].end
    /\ \A i \in DOMAIN d.alloc : d.alloc[i].start <= d.alloc[i].end

\* Construction on a source of well-formed rows.  The start and the end
\* event of a row have the same channel id, so these sources give the same
\* sequences of channel ids as all sources do.
FairInit == Init /\ WellFormed(db)

\* The consumer keeps pulling until it has seen end of stream: a pull that
\* is possible is eventually made.
FairSpec == FairInit /\ [][Next]_vars /\ WF_vars(Pull)

\* Construction on a source of one or two rows with varied context columns
ClassifyInit ==
    /\ db \in WideDatabases
    /\ _current_events = LoadEvents(db)
    /\ _state = "stream_beginning"
    /\ _event_index = 0
    /\ _current_stream = None
    /\ _streams = <<>>
    /\ _channels = <<>>
    /\ _event_classes = EventClasses
    /\ out = <<>>
    /\ ret = None
    /\ stops = 0
    /\ loads = 1
    /\ Running

\* The iterator run on those sources: every pull classifies the event at the
\* cursor (channel id, event class, payload).
ClassifySpec == ClassifyInit /\ [][Next]_vars

----------------------------------------------------------------------------
(* The life of a component and of its iterator *)

\* Stores of no row or of one region row and one kernel dispatch row, with
\* several lists of tables, a sqlite_master that can or cannot be read, and
\* a kernel dispatch row whose end is or is not NULL
LifeDatabases ==
    {[region |-> region, kernel |-> kernel, copy |-> <<>>, alloc |-> <<>>,
      failed |-> failed, null_times |-> null_times, tables |-> tables] :
        region \in {<<>>, <<ScenarioRegion(1, 2)>>},
        kernel \in {<<>>, <<ScenarioKernel(1, 2, None)>>},
        failed \in {{}, {"master"}},
        null_times \in {{}, {"kernel"}},
        tables \in TableLists}

\* Before the component is constructed
LifeInit ==
    /\ db \in {d \in LifeDatabases : Len(d.region) = Len(d.kernel)}
    /\ fs \in {files \in [Paths -> FileKinds] :
                  files["24228_results.db"] \in {"absent", "store"}}
    /\ component = Unborn
    /\ life = "unborn"
    /\ _conn = None
    /\ _uuid = None
    /\ answer = None
    /\ closes = 0
    /\ _current_events = <<>>
    /\ _state = "stream_beginning"
    /\ _event_index = 0
    /\ _current_stream = None
    /\ _streams = <<>>
    /\ _channels = <<>>
    /\ _event_classes = <<>>
    /\ out = <<>>
    /\ ret = None
    /\ stops = 0
    /\ loads = 0

\* The graph constructs the component with some parameters
Construct ==
    /\ component.status = "unborn"
    /\ \E params \in ParamSets : component' = RocmSourceInit(fs, params)
    /\ UNCHANGED <<db, _current_events, _state, _event_index,
                   _current_stream, _streams, _channels, _event_classes,
                   out, ret, stops, loads, _conn, _uuid, life, fs, answer,
                   closes>>

\* RocmSourceIterator.__init__ on the output port of the component.
\* sqlite3.connect raises on a directory, before _conn is assigned; a load
\* that raises leaves an iterator that is never pulled, whose list is not
\* modelled.
CreateIterator ==
    /\ component.status = "ready"
    /\ "out" \in component.ports
    /\ life = "unborn"
    /\ _streams' = <<>>
    /\ _channels' = <<>>
    /\ _event_classes' = EventClasses
    /\ _state' = "stream_beginning"
    /\ _event_index' = 0
    /\ _current_stream' = None
    /\ IF fs[component._db_path[1]] = "directory"
       THEN /\ life' = "failed"
            /\ UNCHANGED <<_conn, _uuid, _current_events, loads>>
       ELSE LET content == Content(fs, component._db_path[1], db)
            IN  /\ _conn' = Some("open")
                /\ _uuid' = Some(GetDbMetadata(content))
                /\ loads' = loads + 1
                /\ IF LoadRaises(content)
                   THEN life' = "failed" /\ _current_events' = <<>>
                   ELSE /\ life' = "live"
                        /\ _current_events' = LoadEvents(content)
    /\ UNCHANGED <<db, out, ret, stops, component, fs, answer, closes>>

\* The iterator object is released, after end of stream, before it, or
\* after its __init__ raised: the interpreter runs __del__ once.
Destroy ==
    /\ life \in {"live", "failed"}
    /\ life' = "dead"
    /\ _conn' = Del(_conn, closes)._conn
    /\ closes' = Del(_conn, closes).closes
    /\ UNCHANGED <<db, _current_events, _state, _event_index,
                   _current_stream, _streams, _channels, _event_classes,
                   out, ret, stops, loads, _uuid, component, fs, answer>>

\* One query of the component class; it needs no component
Query ==
    /\ answer = None
    /\ \E query \in Queries, input_value \in QueryInputs :
          /\ query # "babeltrace.support-info" => input_value = PyNone
          /\ answer' = Some([query |-> query, input |-> input_value,
                             result |-> UserQuery(fs, db, query,
                                                  input_value)])
    /\ UNCHANGED <<db, _current_events, _state, _event_index,
                   _current_stream, _streams, _channels, _event_classes,
                   out, ret, stops, loads, _conn, _uuid, life, component,
                   fs, closes>>

LifeNext == Construct \/ CreateIterator \/ Pull \/ Destroy \/ Query

LifeSpec == LifeInit /\ [][LifeNext]_vars

----------------------------------------------------------------------------
(* Vocabulary of the properties *)

\* the channel id of the i-th event of the loaded list (1-based)
KeyAt(i) == GetChannelId(_current_events[i])

\* the channel ids that occur in the loaded list
ListKeys == {KeyAt(i) : i \in 1..Len(_current_events)}

\* the channel id a stream was created for
ChannelIdOf(stream) == CHOOSE k \in DOMAIN _streams : _streams[k] = stream

\* positions of the output holding a message of a kind
Begins == {j \in 1..Len(out) : out[j].type = "stream_beginning"}

Events == {j \in 1..Len(out) : out[j].type = "event"}

Ends == {j \in 1..Len(out) : out[j].type = "stream_end"}

BeginsOf(K) == {j \in Begins : ChannelIdOf(out[j].stream) = K}

EventsOf(K) == {j \in Events : ChannelIdOf(out[j].stream) = K}

EndsOf(K) == {j \in Ends : ChannelIdOf(out[j].stream) = K}

\* the first positions of the maximal contiguous same-key runs of the list
RunStarts ==
    {i \in 1..Len(_current_events) : i = 1 \/ KeyAt(i - 1) # KeyAt(i)}

RunStartsOf(K) == {i \in RunStarts : KeyAt(i) = K}

\* the consumer has pulled until end of stream
Complete == stops > 0

EndOfStream == ret = Some(StopIteration)

\* the event at the cursor is of another channel than the current one
SwitchPending ==
    /\ _state = "events"
    /\ _event_index < Len(_current_events)
    /\ _current_stream # None
    /\ KeyAt(_event_index + 1) # ChannelIdOf(_current_stream[1])

----------------------------------------------------------------------------
(* Channel framing of the output *)

\* C1: a pull in state "events" whose cursor event is of another channel
\* than the current one returns a stream-beginning message for the new
\* channel and leaves the cursor where it is; and the pull that follows a
\* stream-beginning message returns the event at the cursor as an event
\* message on that stream.
C1_SwitchKeepsCursor ==
    [][/\ SwitchPending =>
            /\ ret'[1].type = "stream_beginning"
            /\ ret'[1].stream = _streams'[KeyAt(_event_index + 1)]
            /\ _event_index' = _event_index
       /\ ( /\ _state = "events"
            /\ ret # None
            /\ ret[1].type = "stream_beginning"
            /\ _event_index < Len(_current_events) ) =>
            /\ ret'[1].type = "event"
            /\ ret'[1].index = _event_index
            /\ ret'[1].stream = ret[1].stream]_vars

\* C2 as stated: after a complete run every channel id of the list has
\* exactly one stream-beginning message, and it precedes the first event
\* message of the channel.
C2_ExactlyOneBegin ==
    Complete =>
        \A K \in ListKeys :
            /\ Cardinality(BeginsOf(K)) = 1
            /\ \A j \in BeginsOf(K) : \A e \in EventsOf(K) : j < e

\* C2 as amended: after a complete run every channel id of the list has
\* one stream-beginning message for each maximal contiguous run of the
\* channel in the list (at least one), and the first of them precedes the
\* first event message of the channel.
C2_OneBeginPerRun ==
    Complete =>
        \A K \in ListKeys :
            /\ K \in DOMAIN _streams
            /\ Cardinality(BeginsOf(K)) = Cardinality(RunStartsOf(K))
            /\ Cardinality(BeginsOf(K)) >= 1
            /\ \A e \in EventsOf(K) : \E j \in BeginsOf(K) : j < e

C2_Witness ==
    /\ Complete
    /\ \E K \in ListKeys :
          /\ Cardinality(BeginsOf(K)) >= 2
          /\ EventsOf(K) # {}

\* C3: after a complete run every channel that received a stream-beginning
\* message has exactly one stream-end message, and it follows the last
\* event message of the channel.
C3_ExactlyOneEnd ==
    Complete =>
        \A K \in DOMAIN _streams :
            BeginsOf(K) # {} =>
                /\ Cardinality(EndsOf(K)) = 1
                /\ \A l \in EndsOf(K) : \A e \in EventsOf(K) : e < l

\* C4: after a complete run the output is a repetition of stream-beginning,
\* event messages of that stream, stream-end of that stream: every
\* stream-beginning is followed by the stream-end of its stream with only
\* event messages of that stream in between, and the output starts with a
\* stream-beginning unless it is empty.
C4_BeginEventsEndShape ==
    Complete =>
        /\ out # <<>> => out[1].type = "stream_beginning"
        /\ \A j \in Begins :
              \E l \in Ends :
                 /\ j < l
                 /\ out[l].stream = out[j].stream
                 /\ \A m \in (j + 1)..(l - 1) :
                       /\ out[m].type = "event"
                       /\ out[m].stream = out[j].stream
        /\ \A m \in Events \cup Ends : m - 1 \in Begins \cup Events

\* C5: every event message comes after a stream-beginning message; the
\* most recent stream-beginning before it is of the event message's stream,
\* with no stream-end in between; and that stream is the stream of the
\* event's own channel id.
C5_EventInsideItsChannel ==
    \A e \in Events :
        /\ \E j \in Begins :
              /\ j < e
              /\ out[j].stream = out[e].stream
              /\ \A m \in (j + 1)..(e - 1) : out[m].type = "event"
        /\ ChannelIdOf(out[e].stream) = KeyAt(out[e].index + 1)

C5_Witness ==
    \E e \in Events :
        Cardinality({j \in Begins : j < e}) >= 2

\* C6: after the stream-end message of a channel no stream-beginning and no
\* event message of that channel is emitted.
C6_NeverReopened ==
    \A l \in Ends :
        \A m \in (l + 1)..Len(out) : out[m].stream # out[l].stream

C6_Witness ==
    /\ stops >= 2
    /\ Len(out) >= 3
    /\ out[Len(out)].type = "stream_end"

\* C7: after a complete run the number of stream-beginning messages is the
\* number of maximal contiguous same-key runs of the loaded list, and the
\* k-th stream-beginning is for the channel of the k-th run, whether or not
\* that channel was current before.
C7_BeginPerRun ==
    Complete =>
        /\ Cardinality(Begins) = Cardinality(RunStarts)
        /\ \A j \in Begins : \E i \in RunStarts :
              /\ Cardinality({b \in Begins : b < j})
                    = Cardinality({r \in RunStarts : r < i})
              /\ ChannelIdOf(out[j].stream) = KeyAt(i)

C7_Witness ==
    /\ Complete
    /\ \E i \in RunStarts : \E h \in RunStarts : h < i /\ KeyAt(h) = KeyAt(i)
    /\ Cardinality(Begins) >= 3

----------------------------------------------------------------------------
(* Start and end of the stream *)

\* C8: on an empty loaded list no message is ever emitted, and the first
\* pull raises StopIteration and leaves the iterator in state "done".
C8_EmptyListNoMessage ==
    _current_events = <<>> =>
        /\ out = <<>>
        /\ ret = None => _state = "stream_beginning"
        /\ ret # None => EndOfStream /\ _state = "done"

C8_Witness == _current_events = <<>> /\ stops >= 1

\* C9: once a pull has raised StopIteration the iterator is in state
\* "done", and every later pull raises StopIteration, emits no message and
\* leaves the state, the cursor and the current stream unchanged.
C9_DoneIsTerminal ==
    [][EndOfStream =>
          /\ _state = "done"
          /\ ret' = Some(StopIteration)
          /\ out' = out
          /\ _state' = _state
          /\ _event_index' = _event_index
          /\ _current_stream' = _current_stream]_vars

C9_Witness == stops >= 2 /\ _state = "done" /\ _event_index >= 2

\* C10: a consumer that keeps pulling eventually gets StopIteration with
\* the iterator in state "done".
C10_EventuallyDone == <>(EndOfStream /\ _state = "done")

C10_Witness ==
    /\ EndOfStream
    /\ _state = "done"
    /\ Len(_current_events) >= 4
    /\ _event_index = Len(_current_events)

----------------------------------------------------------------------------
(* Order of the event messages *)

\* the events of the four families in load order, before the sort
Loaded ==
    LoadRegionEvents(db.region) \o LoadKernelDispatchEvents(db.kernel)
        \o LoadMemoryCopyEvents(db.copy)
        \o LoadMemoryAllocationEvents(db.alloc)

\* C11: of two consecutive messages of the output that are both event
\* messages (no stream-beginning between them), the second has a timestamp
\* that is not less than the timestamp of the first.
C11_TimestampsNonDecreasing ==
    \A m \in Events :
        m + 1 \in Events =>
            out[m].default_clock_snapshot <= out[m + 1].default_clock_snapshot

\* two consecutive event messages with increasing timestamps, on a source
\* whose load order is not the timestamp order
C11_Witness ==
    /\ Loaded # _current_events
    /\ \E m \in Events :
          /\ m + 1 \in Events
          /\ out[m].default_clock_snapshot < out[m + 1].default_clock_snapshot

----------------------------------------------------------------------------
(* Channel id of an event *)

\* the event an event message was made of
EventOf(m) == _current_events[m.index + 1]

\* the category of an event, 'unknown' when it has none
CategoryOrUnknown(event_data) ==
    IF event_data.category = "" THEN "unknown" ELSE event_data.category

\* the text of an id in a channel id
IdText(x) == ToString(x[1])

\* C12: the stream of every event message is the stream of the channel id
\* '{category}_thread_{tid}' when the event has a thread id (0 included),
\* else '{category}_queue_{queue_id}' when it has a queue id, else
\* '{category}_stream_{stream_id}' when it has a stream id, else
\* '{category}_default_{pid or 0}', with 'unknown' for an absent category;
\* and the channel is registered under that id.
C12_ChannelKeyByPriority ==
    \A e \in Events :
        LET ev == EventOf(out[e])
            c == CategoryOrUnknown(ev)
            K == ChannelIdOf(out[e].stream)
        IN  /\ K \in DOMAIN _channels
            /\ _channels[K].channel_id = K
            /\ ev.tid # None => K = c \o "_thread_" \o IdText(ev.tid)
            /\ (ev.tid = None /\ ev.queue_id # None) =>
                    K = c \o "_queue_" \o IdText(ev.queue_id)
            /\ (ev.tid = None /\ ev.queue_id = None /\ ev.stream_id # None) =>
                    K = c \o "_stream_" \o IdText(ev.stream_id)
            /\ (ev.tid = None /\ ev.queue_id = None /\ ev.stream_id = None) =>
                    K = c \o "_default_"
                          \o (IF ev.pid = None THEN "0" ELSE IdText(ev.pid))

\* an event with thread id 0 and a queue and a stream id was emitted on its
\* thread channel, and an event with no id at all on a default channel
C12_Witness ==
    /\ \E e \in Events :
          /\ EventOf(out[e]).tid = Some(0)
          /\ EventOf(out[e]).queue_id = Some(1)
          /\ EventOf(out[e]).stream_id = Some(1)
          /\ ChannelIdOf(out[e].stream) = "KERNEL_DISPATCH_thread_0"
    /\ \E e \in Events :
          /\ EventOf(out[e]).tid = None
          /\ EventOf(out[e]).category = ""
          /\ ChannelIdOf(out[e].stream) = "unknown_default_1"

\* C13: two event messages whose events differ in category (an absent one
\* taken as 'unknown') are on streams of different channel ids, whatever
\* ids the events share; two event messages whose events have the same
\* category and the same thread id are on the stream of one channel id,
\* whatever their queue and stream ids.
C13_SaltedByCategory ==
    \A e \in Events : \A f \in Events :
        LET a == EventOf(out[e])
            b == EventOf(out[f])
        IN  /\ CategoryOrUnknown(a) # CategoryOrUnknown(b) =>
                /\ out[e].stream # out[f].stream
                /\ ChannelIdOf(out[e].stream) # ChannelIdOf(out[f].stream)
            /\ ( /\ CategoryOrUnknown(a) = CategoryOrUnknown(b)
                 /\ a.tid # None
                 /\ a.tid = b.tid ) =>
                /\ out[e].stream = out[f].stream
                /\ ChannelIdOf(out[e].stream) = ChannelIdOf(out[f].stream)

\* a region event and a kernel dispatch event of one thread id, with other
\* categories, were emitted
C13_Witness ==
    \E e \in Events : \E f \in Events :
        /\ EventOf(out[e]).category # EventOf(out[f]).category
        /\ EventOf(out[e]).tid = Some(1)
        /\ EventOf(out[f]).tid = Some(1)
        /\ EventOf(out[f]).queue_id = Some(1)

\* two kernel dispatch events of one thread id, with other queue and stream
\* ids, were emitted
C13_WitnessSameThread ==
    \E e \in Events : \E f \in Events :
        /\ EventOf(out[e]).category = EventOf(out[f]).category
        /\ EventOf(out[e]).tid = Some(0)
        /\ EventOf(out[f]).tid = Some(0)
        /\ EventOf(out[e]).queue_id # EventOf(out[f]).queue_id
        /\ EventOf(out[e]).stream_id # EventOf(out[f]).stream_id

----------------------------------------------------------------------------
(* Event class and payload of an event message *)

\* the spellings of the three categories that have a schema of their own
KernelDispatchSpellings == {"KERNEL_DISPATCH", "Kernel_Dispatch"}

MemoryCopySpellings == {"MEMORY_COPY", "memory_copy"}

MemoryAllocationSpellings == {"MEMORY_ALLOCATION", "Memory_Allocation"}

\* the spellings of the region-style categories
RegionStyleSpellings == {"HIP_RUNTIME_API_EXT", "Hip_Compiler_Api_Ext"}

\* C14: every event message has one of the five event classes; an event of
\* category KERNEL_DISPATCH, MEMORY_COPY or MEMORY_ALLOCATION, in any
\* spelling of upper and lower case, has the class of that category; an
\* event that matches no rule (its category is absent or none of the
\* categories with a rule, and its name does not contain "region") has the
\* generic class.
C14_ClassResolutionTotal ==
    \A e \in Events :
        LET ev == EventOf(out[e])
            class == out[e].event_class
        IN  /\ class \in {"region_event", "kernel_dispatch_event",
                          "memory_copy_event", "memory_allocation_event",
                          "generic_event"}
            /\ ev.category \in KernelDispatchSpellings =>
                    class = "kernel_dispatch_event"
            /\ ev.category \in MemoryCopySpellings =>
                    class = "memory_copy_event"
            /\ ev.category \in MemoryAllocationSpellings =>
                    class = "memory_allocation_event"
            /\ ( /\ ev.category \notin
                        KernelDispatchSpellings \cup MemoryCopySpellings
                            \cup MemoryAllocationSpellings
                            \cup RegionStyleSpellings
                 /\ ~ContainsRegion(ev.name) ) =>
                    class = "generic_event"

\* events of a category spelled in mixed case, of an unmapped category and
\* of no category were emitted
C14_Witness ==
    /\ \E e \in Events :
          /\ EventOf(out[e]).category = "Kernel_Dispatch"
          /\ out[e].event_class = "kernel_dispatch_event"
    /\ \E e \in Events :
          /\ EventOf(out[e]).category \in {"", "HIP_RUNTIME_API"}
          /\ EventOf(out[e]).name = "hipMalloc_end"
          /\ out[e].event_class = "generic_event"

\* C15: every event message made of an event of a region record (whatever
\* its category), and every event message made of an event whose name
\* contains "region" and whose category is absent or none of
\* KERNEL_DISPATCH, MEMORY_COPY and MEMORY_ALLOCATION, has the region class.
C15_RegionRecordsGetRegionClass ==
    \A e \in Events :
        LET ev == EventOf(out[e])
        IN  ( \/ ev.event_args.event_type
                    \in {Some("region_start"), Some("region_end")}
              \/ /\ ContainsRegion(ev.name)
                 /\ ev.category \notin
                        KernelDispatchSpellings \cup MemoryCopySpellings
                            \cup MemoryAllocationSpellings ) =>
                out[e].event_class = "region_event"

\* the payload fields of a message that were set from the event
Populated(m) == {k \in DOMAIN m.payload : m.payload[k] # None}

\* C16: the payload of every event message has the fields of the event's
\* class and no other; a key of the event's raw arguments is set in the
\* payload, to its raw value, if and only if it is a field of the class and
\* its raw value is not null; no other field is set.
C16_PayloadWithinSchema ==
    \A e \in Events :
        LET args == EventOf(out[e]).event_args
            schema == EventClasses[out[e].event_class]
        IN  /\ DOMAIN out[e].payload = schema
            /\ Populated(out[e]) \subseteq schema \cap DOMAIN args
            /\ \A k \in DOMAIN args :
                  /\ k \in Populated(out[e]) <=>
                        (k \in schema /\ args[k] # None)
                  /\ k \in Populated(out[e]) => out[e].payload[k] = args[k]

\* an event message that dropped raw keys its class does not declare, and
\* an event message that skipped a declared key whose raw value is null
C16_Witness ==
    /\ \E e \in Events :
          /\ Populated(out[e]) # {}
          /\ \E k \in DOMAIN EventOf(out[e]).event_args :
                /\ EventOf(out[e]).event_args[k] # None
                /\ k \notin EventClasses[out[e].event_class]
    /\ \E e \in Events :
          \E k \in DOMAIN EventOf(out[e]).event_args :
                /\ EventOf(out[e]).event_args[k] = None
                /\ k \in EventClasses[out[e].event_class]

----------------------------------------------------------------------------
(* The loaded list *)

\* positions of the loaded list whose event has one of the event types
OfType(types) ==
    {i \in 1..Len(_current_events) :
        _current_events[i].event_args.event_type \in types}

\* C17: the loaded list holds, for each of the four families, one start
\* event and one end event for every row the family's query returned, so
\* the events of a family are twice its rows.
C17_TwoEventsPerRow ==
    /\ Cardinality(OfType({Some("region_start")})) = Len(db.region)
    /\ Cardinality(OfType({Some("region_end")})) = Len(db.region)
    /\ Cardinality(OfType({Some("kernel_dispatch_start")})) = Len(db.kernel)
    /\ Cardinality(OfType({Some("kernel_dispatch_end")})) = Len(db.kernel)
    /\ Cardinality(OfType({Some("memory_copy_start")})) = Len(db.copy)
    /\ Cardinality(OfType({Some("memory_copy_end")})) = Len(db.copy)
    /\ Cardinality(OfType({Some("memory_allocation_start")})) = Len(db.alloc)
    /\ Cardinality(OfType({Some("memory_allocation_end")})) = Len(db.alloc)
    /\ Cardinality(OfType({Some("region_start"), Some("region_end")}))
          = 2 * Len(db.region)
    /\ Cardinality(OfType({Some("kernel_dispatch_start"),
                           Some("kernel_dispatch_end")})) = 2 * Len(db.kernel)
    /\ Cardinality(OfType({Some("memory_copy_start"),
                           Some("memory_copy_end")})) = 2 * Len(db.copy)
    /\ Cardinality(OfType({Some("memory_allocation_start"),
                           Some("memory_allocation_end")})) = 2 * Len(db.alloc)
    /\ Len(_current_events)
          = 2 * (Len(db.region) + Len(db.kernel) + Len(db.copy)
                    + Len(db.alloc))

\* a source with rows of two families, one of them the kernel dispatches,
\* has been loaded and read to its end
C17_Witness ==
    /\ Len(db.kernel) = 1
    /\ Len(db.region) = 1
    /\ Len(_current_events) = 4
    /\ Complete

\* the rows of the four families in load order: the r-th row is the row of
\* the events 2r-1 and 2r of Loaded
RowsInLoadOrder == db.region \o db.kernel \o db.copy \o db.alloc

\* the number of occurrences of an event in a list
Count(events, x) == Cardinality({i \in DOMAIN events : events[i] = x})

\* the loaded list holds the events of the list L, each as often as L
SameEvents(L) ==
    /\ Len(_current_events) = Len(L)
    /\ \A i \in DOMAIN L : Count(_current_events, L[i]) = Count(L, L[i])

StartTypes ==
    {Some("region_start"), Some("kernel_dispatch_start"),
     Some("memory_copy_start"), Some("memory_allocation_start")}

EndTypes ==
    {Some("region_end"), Some("kernel_dispatch_end"),
     Some("memory_copy_end"), Some("memory_allocation_end")}

NameStems ==
    {"main_region", "hipMalloc", "kernel_dispatch", "memory_copy",
     "memory_allocation"}

\* the start event s and the end event e are the pair of the row: they have
\* the row's start and end as timestamps, the row's process and thread id,
\* the same category, queue and stream id and channel id, and one name stem
PairOfRow(row, s, e) ==
    /\ s.event_args.event_type \in StartTypes
    /\ e.event_args.event_type \in EndTypes
    /\ s.timestamp = row.start
    /\ e.timestamp = row.end
    /\ s.category = e.category
    /\ s.pid = row.pid /\ e.pid = row.pid
    /\ s.tid = row.tid /\ e.tid = row.tid
    /\ s.queue_id = e.queue_id
    /\ s.stream_id = e.stream_id
    /\ GetChannelId(s) = GetChannelId(e)
    /\ \E stem \in NameStems :
          s.name = stem \o "_start" /\ e.name = stem \o "_end"

\* C18 as stated: the loaded list holds, for every row, exactly the start
\* event and the end event of that row, which agree on category, process,
\* thread, queue and stream id (hence on the channel id) and on the name
\* stem, and the start event's timestamp is not greater than the end
\* event's.
C18_PairedAndOrdered ==
    LET L == Loaded
        R == RowsInLoadOrder
    IN  /\ SameEvents(L)
        /\ Len(L) = 2 * Len(R)
        /\ \A r \in DOMAIN R :
              /\ PairOfRow(R[r], L[2 * r - 1], L[2 * r])
              /\ L[2 * r - 1].timestamp <= L[2 * r].timestamp

\* C18 as amended: the same pairing, and the start event's timestamp is not
\* greater than the end event's whenever the row's end is not before its
\* start; the timestamps are the row's start and end as they are stored.
C18_PairedOrderedIfRowIs ==
    LET L == Loaded
        R == RowsInLoadOrder
    IN  /\ SameEvents(L)
        /\ Len(L) = 2 * Len(R)
        /\ \A r \in DOMAIN R :
              /\ PairOfRow(R[r], L[2 * r - 1], L[2 * r])
              /\ R[r].start <= R[r].end =>
                    L[2 * r - 1].timestamp <= L[2 * r].timestamp

\* a source with a kernel dispatch row that ends after it starts and a row
\* that ends before it starts has been loaded and read to its end
C18_Witness ==
    /\ Complete
    /\ \E r \in DOMAIN db.kernel : db.kernel[r].start < db.kernel[r].end
    /\ \E r \in DOMAIN RowsInLoadOrder :
          RowsInLoadOrder[r].end < RowsInLoadOrder[r].start

\* the place of the m-th event of the list L in L sorted by timestamp with
\* ties in the order of L: behind the events of a smaller timestamp and the
\* earlier events of its own timestamp
Rank(L, m) ==
    1 + Cardinality({n \in DOMAIN L :
                       \/ L[n].timestamp < L[m].timestamp
                       \/ L[n].timestamp = L[m].timestamp /\ n < m})

\* C19: the loaded list is in ascending order of timestamp, and it holds
\* the events of equal timestamp in load order: region events, then kernel
\* dispatch, memory copy and memory allocation events, in row order within
\* a family and the start event before the end event of a row.
C19_SortedStable ==
    LET L == Loaded
    IN  /\ Len(_current_events) = Len(L)
        /\ \A i \in 1..(Len(_current_events) - 1) :
              _current_events[i].timestamp <= _current_events[i + 1].timestamp
        /\ \A m \in DOMAIN L : _current_events[Rank(L, m)] = L[m]

\* a list the sort had to reorder, with events of one timestamp from two
\* families and from one row
C19_Witness ==
    /\ Loaded # _current_events
    /\ \E i \in DOMAIN _current_events : \E j \in DOMAIN _current_events :
          /\ i < j
          /\ _current_events[i].timestamp = _current_events[j].timestamp
          /\ _current_events[i].category # _current_events[j].category
    /\ \E r \in DOMAIN RowsInLoadOrder :
          RowsInLoadOrder[r].start = RowsInLoadOrder[r].end
    /\ Complete

\* C20: a run of _load_events on an iterator that has loaded the source
\* before leaves the list as it was: the same events in the same order,
\* none twice and none carried over.
C20_ReloadSameList ==
    [][loads' = loads + 1 =>
          /\ _current_events' = _current_events
          /\ Len(_current_events') = Len(Loaded)]_vars

\* a list of four events, with events of one timestamp, was loaded twice
C20_Witness ==
    /\ loads = 2
    /\ Len(_current_events) = 4
    /\ Loaded # _current_events
    /\ _current_events[2].timestamp = _current_events[3].timestamp

\* C22: for every row of every family the start event of the row carries
\* the duration 0 and its end event the duration end - start: 0 for a row
\* whose end is its start, and never a negative one for a row whose end is
\* not before its start.
C22_Durations ==
    LET L == Loaded
        R == RowsInLoadOrder
    IN  /\ SameEvents(L)
        /\ Len(L) = 2 * Len(R)
        /\ \A r \in DOMAIN R :
              LET s == L[2 * r - 1].event_args.duration
                  e == L[2 * r].event_args.duration
              IN  /\ L[2 * r - 1].event_args.event_type \in StartTypes
                  /\ L[2 * r].event_args.event_type \in EndTypes
                  /\ s = Some(0)
                  /\ e = Some(R[r].end - R[r].start)
                  /\ R[r].end = R[r].start => e = Some(0)
                  /\ R[r].end >= R[r].start => e # None /\ e[1] >= 0

\* a memory allocation row that ends when it starts and a region row that
\* ends later than it starts were loaded and read to the end
C22_Witness ==
    /\ Complete
    /\ \E r \in DOMAIN db.alloc : db.alloc[r].end = db.alloc[r].start
    /\ \E r \in DOMAIN db.region : db.region[r].end > db.region[r].start

\* the event types of the events of a record family
FamilyTypes ==
    [region |-> {Some("region_start"), Some("region_end")},
     kernel |-> {Some("kernel_dispatch_start"), Some("kernel_dispatch_end")},
     copy   |-> {Some("memory_copy_start"), Some("memory_copy_end")},
     alloc  |-> {Some("memory_allocation_start"),
                 Some("memory_allocation_end")}]

\* the events of a family in a list, in the order of the list
OfFamily(events, family) ==
    LET Is(e) == e.event_args.event_type \in FamilyTypes[family]
    IN  SelectSeq(events, Is)

\* C21: the construction of the iterator on a source with failing queries
\* does not raise; the loaded list holds no event of a family whose query
\* failed, and the events of every other family are in it exactly as in
\* the list loaded from the same source with no failing query.
C21_FailedFamilyLoadsNothing ==
    LET unfailing == LoadEvents([db EXCEPT !.failed = {}])
    IN  /\ life = "live"
        /\ \A family \in DOMAIN FamilyTypes :
              OfFamily(_current_events, family) =
                  IF family \in db.failed
                  THEN <<>>
                  ELSE OfFamily(unfailing, family)

\* a family with rows failed and another family was loaded
C21_Witness ==
    /\ Complete
    /\ \E family \in db.failed : db[family] # <<>>
    /\ \E family \in DOMAIN FamilyTypes \ db.failed : db[family] # <<>>
    /\ _current_events # <<>>
\* The event at the cursor has no class in the iterator's classes, and the
\* generic class is missing too
Unavailable(event_data) ==
    /\ EventClassGet(_event_classes,
                     GetEventClassNameByCategory(event_data)) = None
    /\ EventClassGet(_event_classes, "generic_event") = None

MessageTypes == {"stream_beginning", "event", "stream_end"}

C29_OneMessagePerPull ==
    [][/\ ret' # None
       /\ \/ ret'[1] = StopIteration /\ out' = out
          \/ /\ ret'[1].type \in MessageTypes
             /\ out' = Append(out, ret'[1])
       /\ _current_events' = _current_events
       /\ db' = db
       /\ _event_classes' = _event_classes
       /\ loads' = loads]_vars

\* each of the three messages and end of stream has been returned by a pull
C29_Witness ==
    /\ Complete
    /\ \A t \in MessageTypes : \E i \in DOMAIN out : out[i].type = t

\* the source holds the rows of the literal scenario
LiteralScenario ==
    /\ db.region = <<ScenarioRegion(1000, 1005)>>
    /\ \E tid \in {None, Some(1)} :
          db.kernel = <<ScenarioKernel(1500, 3500, tid)>>

\* the message at a position of the output is the event message of an
\* event with this name, timestamp and duration
IsEvent(j, name, timestamp, duration) ==
    /\ out[j].type = "event"
    /\ EventOf(out[j]).name = name
    /\ out[j].default_clock_snapshot = timestamp
    /\ out[j].payload.duration = Some(duration)

\* C30: when the consumer of the literal scenario has seen end of stream,
\* the output holds, at increasing positions: a stream beginning of the
\* channel of the region, the event main_region_start at 1000 with
\* duration 0, a stream beginning of the channel of the kernel dispatch,
\* the event kernel_dispatch_start at 1500 with duration 0, the event
\* kernel_dispatch_end at 3500 with duration 2000, and a stream end of the
\* channel of the kernel dispatch.
C30_LiteralScenario ==
    (LiteralScenario /\ Complete) =>
        LET region == GetChannelId(RegionStartEvent(db.region[1]))
            kernel == GetChannelId(KernelStartEvent(db.kernel[1]))
        IN  \E b1 \in BeginsOf(region), e1 \in Events,
               b2 \in BeginsOf(kernel), e2 \in Events, e3 \in Events,
               x \in EndsOf(kernel) :
                /\ b1 < e1 /\ e1 < b2 /\ b2 < e2 /\ e2 < e3 /\ e3 < x
                /\ IsEvent(e1, "main_region_start", 1000, 0)
                /\ IsEvent(e2, "kernel_dispatch_start", 1500, 0)
                /\ IsEvent(e3, "kernel_dispatch_end", 3500, 2000)

\* C23: a component constructed with the parameter db-path missing or
\* empty has failed with ValueError, the configuration error, has no
\* output port, and no iterator exists and no message was produced.
C23_MissingPathIsConfigurationError ==
    (component.status # "unborn"
        /\ component.params.db_path \in {None, Some("")})
    => /\ component.status = "failed"
       /\ component.error = Some("ValueError")
       /\ component.ports = {}
       /\ life = "unborn"
       /\ out = <<>>

\* C24: a component constructed on a path that is not empty and does not
\* exist has failed with FileNotFoundError, has no trace class and no
\* output port, and no iterator exists, no connection was opened and no
\* message was produced.
C24_NotFoundBeforeAnythingIsCreated ==
    (component.status # "unborn"
        /\ component._db_path[1] # ""
        /\ ~Exists(fs, component._db_path[1]))
    => /\ component.status = "failed"
       /\ component.error = Some("FileNotFoundError")
       /\ ~component._trace_class
       /\ component.ports = {}
       /\ life = "unborn"
       /\ _conn = None
       /\ out = <<>>

\* the component was constructed on a path given and not existing
C24_Witness ==
    /\ component.status = "failed"
    /\ component.params.db_path = Some("nowhere.db")
    /\ component.error = Some("FileNotFoundError")

\* a table named by the convention of the profiler: rocpd_<family>...
Recognized(table) == table.prefix = "rocpd" /\ table.family # <<>>

C25_WitnessNoStore ==
    /\ answer # None
    /\ answer[1].query = "babeltrace.support-info"
    /\ answer[1].input = PyStr("trace.db")
    /\ fs["trace.db"] \in {"text", "directory"}
    /\ answer[1].result = Weight("0.0")

\* a table with a versioned name: rocpd_<family>_<version>
Versioned(table) == Recognized(table) /\ table.version # <<>>

\* C26: the identifier of an iterator with a connection is the version of
\* one of the versioned tables of what the connection reads, when the
\* table list can be read and holds such a table, and the fixed literal
\* otherwise.
C26_IdentifierIsVersionSuffix ==
    _uuid # None =>
        LET content == Content(fs, component._db_path[1], db)
            versions ==
                IF "master" \in content.failed THEN {}
                ELSE {Join(content.tables[i].version) :
                        i \in {j \in DOMAIN content.tables :
                                  Versioned(content.tables[j])}}
        IN  IF versions # {} THEN _uuid[1] \in versions
            ELSE _uuid[1] = FallbackUuid

C27_WitnessCompleted == life = "dead" /\ Complete /\ closes = 1

\* released by a consumer that stopped early
C27_WitnessAbandoned ==
    life = "dead" /\ out # <<>> /\ stops = 0 /\ closes = 1

\* the event messages of the output, in the order of emission
EventMessages ==
    LET IsEventMessage(msg) == msg.type = "event"
    IN  SelectSeq(out, IsEventMessage)

\* C31: when the consumer has seen end of stream, the event messages of the
\* output are, one for one and in the same order, the events of the loaded
\* list: as many messages as events, the k-th message made from the k-th
\* event and carrying its timestamp.
C31_EveryEventExactlyOnce ==
    Complete =>
        LET E == EventMessages
        IN  /\ Len(E) = Len(_current_events)
            /\ \A k \in DOMAIN E :
                  /\ E[k].index = k - 1
                  /\ k \in DOMAIN _current_events
                  /\ E[k].default_clock_snapshot =
                        _current_events[k].timestamp

\* C32: on a non-empty list the pull made in state "stream_beginning"
\* returns the stream beginning of the stream of the channel id of the
\* first event, makes that stream current, moves to state "events" and
\* leaves the cursor at 0; the second message of the output is the event
\* message of the first event, on that stream.
C32_FirstPullBeginsFirstChannel ==
    /\ [][(_state = "stream_beginning" /\ _current_events # <<>>)
          => /\ ret' = Some(StreamBeginningMessage(_streams'[KeyAt(1)]))
             /\ DOMAIN _streams' = {KeyAt(1)}
             /\ _current_stream' = Some(_streams'[KeyAt(1)])
             /\ out' = <<ret'[1]>>
             /\ _state' = "events"
             /\ _event_index' = 0]_vars
    /\ [](Len(out) >= 2
            => /\ out[2].type = "event"
               /\ out[2].index = 0
               /\ out[2].stream = out[1].stream)

\* the first two pulls on a non-empty list have been made
C32_Witness ==
    /\ Len(out) = 2
    /\ out[1].type = "stream_beginning"
    /\ _event_index = 1

\* C33: the pull made in state "events" with the cursor at the length of
\* the list returns the stream end of the current stream, which is the
\* stream of the channel id of the last event of the list, and moves to
\* state "done"; the pull after a stream end raises StopIteration and adds
\* no message, so that the stream end is the last message of the output.
C33_EndOfLastChannelThenDone ==
    /\ [][(_state = "events" /\ _event_index = Len(_current_events))
          => /\ _current_stream =
                   Some(_streams[KeyAt(Len(_current_events))])
             /\ ret' = Some(StreamEndMessage(_current_stream[1]))
             /\ out' = Append(out, ret'[1])
             /\ _state' = "done"]_vars
    /\ [][(ret # None /\ ret[1].type = "stream_end")
          => ret' = Some(StopIteration) /\ out' = out /\ _state' = "done"]_vars
    /\ [](Complete /\ _current_events # <<>>
            => /\ out[Len(out)].type = "stream_end"
               /\ Cardinality(Ends) = 1)

\* the stream end of a list on two channels was followed by end of stream
C33_Witness ==
    /\ Complete
    /\ Cardinality(ListKeys) = 2
    /\ out # <<>>
    /\ out[Len(out)] =
          StreamEndMessage(_streams[KeyAt(Len(_current_events))])

\* C34: the cursor is never below 0 nor above the length of the list; no
\* pull decreases it; and a pull increases it by no more than the number
\* of events the pull emits (one, when it returns an event message) or
\* skips (the events it passes for which no class is available).
C34_CursorAdvancesWithEvents ==
    /\ [](_event_index >= 0 /\ _event_index <= Len(_current_events))
    /\ [][LET emitted == IF ret'[1].type = "event" THEN 1 ELSE 0
              skipped ==
                  Cardinality({i \in (_event_index + 1).._event_index' :
                                 Unavailable(_current_events[i])})
          IN  /\ _event_index' >= _event_index
              /\ _event_index' - _event_index <= emitted + skipped]_vars

\* the order of the states of the iterator
StateRank ==
    [stream_beginning |-> 0, events |-> 1, stream_end |-> 2, done |-> 3]

\* C35: the state is one of the four states and no pull moves it to an
\* earlier one; from "stream_beginning" a pull goes to "done" on an empty
\* list and to "events" on any other; and a pull leaves "events", for
\* "stream_end" and what follows it, only with the cursor at the length of
\* the list.
C35_StateMovesForward ==
    /\ [](_state \in DOMAIN StateRank)
    /\ [][StateRank[_state'] >= StateRank[_state]]_vars
    /\ [][_state = "stream_beginning"
          => _state' = IF _current_events = <<>> THEN "done"
                       ELSE "events"]_vars
    /\ [][(_state = "events" /\ _state' # "events")
          => /\ _event_index = Len(_current_events)
             /\ _event_index' = _event_index
             /\ ret'[1].type = "stream_end"]_vars

\* the iterator has gone through "events" to "done"
C35_Witness ==
    /\ _state = "done"
    /\ _event_index = Len(_current_events)
    /\ _event_index > 0
    /\ Ends # {}

\* C36: no pull changes the loaded list: after a pull, in whatever state it
\* was made, the list holds the same events at the same positions.
C36_ListImmutable ==
    [][/\ Len(_current_events') = Len(_current_events)
       /\ \A i \in DOMAIN _current_events :
             _current_events'[i] = _current_events[i]]_vars

\* pulls were made in every state on a list of several events
C36_Witness ==
    /\ stops = MaxStops
    /\ Len(_current_events) >= 4
    /\ Begins # {} /\ Events # {} /\ Ends # {}

\* C37: of any two event messages of the output, whatever stream each is
\* on and whatever messages lie between them, the later one has a
\* timestamp that is not less than the timestamp of the earlier one.
C37_TimestampsNonDecreasingOverall ==
    \A i \in Events : \A j \in Events :
        i < j => out[i].default_clock_snapshot <= out[j].default_clock_snapshot

\* event messages of two streams with increasing timestamps were emitted
C37_Witness ==
    /\ Complete
    /\ \E i \in Events : \E j \in Events :
          /\ i < j
          /\ out[i].stream # out[j].stream
          /\ out[i].default_clock_snapshot < out[j].default_clock_snapshot

\* the channel ids of the events the iterator has read so far: those before
\* the cursor, and the first event once the first pull has read it
Looked ==
    IF out = <<>> THEN {}
    ELSE {KeyAt(i) : i \in 1..(IF _event_index = 0 THEN 1 ELSE _event_index)}

\* C38: the stream map and the channel-info map have the same keys, the
\* channel ids of the events read so far, each with its own stream and
\* with the info of its channel id; a pull removes no entry and changes
\* none, so that a channel id that is met again has the stream created
\* for it; and in state "events" the current stream is set and is the
\* stream the map holds for the channel id of the event last read.
C38_OneStreamPerChannelId ==
    /\ [](/\ DOMAIN _streams = Looked
          /\ DOMAIN _channels = Looked
          /\ \A k \in Looked : _channels[k].channel_id = k
          /\ \A k \in Looked : \A l \in Looked :
                _streams[k] = _streams[l] => k = l
          /\ _state = "events" =>
                /\ _event_index <= Len(_current_events)
                /\ _current_stream # None
                /\ \E k \in Looked :
                      /\ _current_stream = Some(_streams[k])
                      /\ k = KeyAt(IF _event_index = 0 THEN 1
                                   ELSE _event_index))
    /\ [][\A k \in DOMAIN _streams :
             /\ k \in DOMAIN _streams' /\ _streams'[k] = _streams[k]
             /\ k \in DOMAIN _channels' /\ _channels'[k] = _channels[k]]_vars

\* a channel id became current a second time, on its first stream
C38_Witness ==
    /\ Complete
    /\ \E k \in DOMAIN _streams :
          /\ Cardinality(BeginsOf(k)) = 2
          /\ \A j \in BeginsOf(k) : out[j].stream = _streams[k]

\* In the loaded list the start events of the rows in Rows (positions of
\* the rows R) come before their end events: the list holds the events of
\* L, and up to any position it holds each start event at least as often
\* as the end events of the rows of Rows that have this start event.
StartsBeforeEnds(L, R, Rows) ==
    /\ SameEvents(L)
    /\ Len(L) = 2 * Len(R)
    /\ \A r \in Rows :
          LET s == L[2 * r - 1]
              ends == {L[2 * q] : q \in {p \in Rows : L[2 * p - 1] = s}}
          IN  /\ s \notin ends
              /\ \A n \in DOMAIN _current_events :
                    Cardinality({i \in 1..n : _current_events[i] = s}) >=
                    Cardinality({i \in 1..n : _current_events[i] \in ends})

\* the event messages of the output follow the order of the loaded list
InListOrder ==
    \A i \in Events : \A j \in Events : i < j => out[i].index < out[j].index

\* C39 as stated: in the loaded list the start event of every row comes
\* before the end event of the row, and the consumer receives the event
\* messages in the order of the list.
C39_StartBeforeEnd ==
    LET L == Loaded
        R == RowsInLoadOrder
    IN  StartsBeforeEnds(L, R, DOMAIN R) /\ InListOrder

\* C39 as amended: the same for every row whose end is not before its
\* start, rows of equal start and end included.
C39_StartBeforeEndIfRowIs ==
    LET L == Loaded
        R == RowsInLoadOrder
    IN  /\ StartsBeforeEnds(L, R, {r \in DOMAIN R : R[r].start <= R[r].end})
        /\ InListOrder

\* a memory copy row of equal start and end, among events of another
\* family at the same time, was loaded and read to its end
C39_Witness ==
    /\ Complete
    /\ \E r \in DOMAIN db.copy : db.copy[r].start = db.copy[r].end
    /\ \E i \in DOMAIN _current_events : \E j \in DOMAIN _current_events :
          /\ _current_events[i].timestamp = _current_events[j].timestamp
          /\ _current_events[i].category # _current_events[j].category
    /\ Events # {}

====
